---- MODULE Spec2Model ----
(***************************************************************************)
(* Model of the prodsys dispatch core: Queue (store.py), Controller,       *)
(* ProductionController, TransportController (control.py), the routers     *)
(* and routing heuristics (router.py), run on the simpy event queue:       *)
(* events scheduled for the same instant are processed in the order in     *)
(* which they were scheduled; an action is the processing of one event     *)
(* with the task it resumes, up to the next yield of that task.            *)
(* Initialize events (priority URGENT) are processed right after the step  *)
(* that created them, so they are part of that step.  Events that have no  *)
(* callback left (a replaced `requested`, got_free) are not queued.        *)
(***************************************************************************)
EXTENDS Integers, Sequences, FiniteSets, TLC

\* ------------------------------------------------------------------ bounds
MaxReq == 3

\* the durations the time models of the states yield
ProcessTime == [production |-> 5, setup |-> 2, transport |-> 2]

NumRes == 2

\* the number of calls made on the queue under test
MaxCalls == 5
MaxDecisions == 2

Capacities == {1, 2, 3}
QueueCapacities == {1, 2}
Policies == {"FIFO", "LIFO"}
Procs == {"p1", "p2", "p3"}

\* process.get_expected_process_time() of the production processes
ExpectedTime == [p1 |-> ProcessTime.production, p2 |-> 1, p3 |-> 3]
StateIds == 1..2
Tids == 1..(MaxReq + 2)

VARIABLES
    kind,        \* "production" | "transport" | "router" | "queue" | "env"
                 \* | "legacy" (the ProductionController of prodsim):
                 \* what the run exercises
    capacity,    \* resource.capacity
    policy,      \* control_policy of the controller
    now,         \* env.now
    queue,       \* the event queue of env, in processing order
    requests,    \* Controller.requests
    reserved,    \* Controller.reserved_requests_count
    running,     \* Controller.running_processes (task ids)
    requested,   \* Controller.requested: "pending" | "triggered" | "processed"
    cwait,       \* the AnyOf the control loop is suspended on
    ntask,       \* number of start_process tasks created so far
    life,        \* per task: "none" | "alive" | "triggered" | "processed"
                 \* | "failed"
    treq,        \* per task: the request it popped (id 0: none yet)
    users,       \* simpy Resource.users: tasks holding a capacity slot
    reqWait,     \* simpy Resource.put_queue: tasks waiting for a slot
    nstates,     \* number of State instances the resource has for the process
    stateProc,   \* per State instance: State.process (0: None, else owning task)
    tstate,      \* per task: the State wait_for_free_process returned (0: none)
    psLife,      \* per task: its process_state run "none"|"running"|"done"|"processed"
    wwait,       \* AnyOf waits of wait_for_free_process: <<[w, on]>>
    inq,         \* items of the resource's input queue
    outq,        \* items of the resource's output queue
    outq2,       \* items of its second output queue, if it has one
    ninq,        \* number of input queues of the resource
    noutq,       \* number of output queues of the resource
    setups,      \* processes for which the resource has a setup state
    setupRun,    \* tasks whose setup state is running
    loc,         \* location of the transport resource
    tleg,        \* per task: the leg it runs, "none" | "empty" | "loaded"
    srcq,        \* items of the origin's (source's) output queue
    tq,          \* target input queue: [items, pending_put, capacity, putters]
    router,      \* the router called: [router, heuristic, ptype]
    resources,   \* resource_factory.resources
    result,      \* what get_next_resource returned: "idle" before the call
    decisions,   \* what the calls of get_next_resource returned, in order
    links,       \* the links of the transport process: {} if it is not a
                 \* LinkTransportProcess
    nreq,        \* requests submitted so far
    subTime,     \* per request id: env.now at Controller.request
    gwait,       \* tasks whose get on the input queue is pending (no match)
    evals,       \* len(requests) at each dispatch of the SPT policy
    outstanding, \* successful reserve() calls not yet followed by unreseve()
    lastCall,    \* the last call on the queue under test and the queue before it
    envRun,      \* the call Environment.run(time_range) and how it ended
    fired,       \* the events env.step() has processed, in that order
    doubleFire,  \* requested.succeed() ran on an event already triggered
    current_setup, \* the process the resource was last set up for
    startTime,   \* per request id: env.now at each start of its State
    pops,        \* per request id: number of requests.pop(0) that returned it
    crashed      \* an exception left a task (IndexError of pop on [])

vars == <<kind, capacity, policy, now, queue, requests, reserved, running,
          requested, cwait, ntask, life, treq, users, reqWait, nstates,
          stateProc, tstate, psLife, wwait, inq, outq, outq2, ninq, noutq,
          setups, setupRun, loc, tleg, srcq, tq,
          router, resources, result, decisions, links, nreq, subTime, gwait, evals, outstanding,
          lastCall, envRun, fired, doubleFire, current_setup, startTime, pops,
          crashed>>

cfgVars == <<kind, capacity, policy, setups, nstates, router, resources,
            result, decisions, links, ninq, noutq>>
trVars == <<loc, tleg, srcq, tq>>
envVars == <<envRun, fired>>
restVars == <<nreq, subTime, gwait, evals, outstanding, lastCall, envVars,
             doubleFire, current_setup>>

\* ------------------------------------------------------------- event queue
Ev(t, k, id) == [t |-> t, k |-> k, id |-> id]

\* the priority of an event: URGENT (0) for the Initialize event of a new
\* process, NORMAL (1) for every other event
Priority(e) == IF e.k = "initialize" THEN 0 ELSE 1

\* a schedule that puts every event last
Insert_last(q, e) == Append(q, e)

\* env.schedule: behind every event that is due earlier, or at the same time
\* with the same or a more urgent priority
Insert(q, e) ==
    LET n == Cardinality({i \in 1..Len(q) :
                 \/ q[i].t < e.t
                 \/ q[i].t = e.t /\ Priority(q[i]) <= Priority(e)})
    IN SubSeq(q, 1, n) \o <<e>> \o SubSeq(q, n + 1, Len(q))

RECURSIVE Sched(_, _)
Sched(q, es) == IF es = <<>> THEN q ELSE Sched(Insert(q, Head(es)), Tail(es))

Fires(k) == ~crashed /\ queue # <<>> /\ Head(queue).k = k

Range(s) == {s[i] : i \in 1..Len(s)}

Reverse(s) == [i \in 1..Len(s) |-> s[Len(s) + 1 - i]]

RemoveAt(s, i) == SubSeq(s, 1, i - 1) \o SubSeq(s, i + 1, Len(s))

NoRequest == [id |-> 0, proc |-> "none", origin |-> "none", target |-> "none"]

\* ------------------------------------------------------------------- Queue
\* Queue.__init__: capacity 0 stands for an unbounded queue
Unbounded == 0

\* the room simpy's Store.put looks at: len(items) < capacity
has_room(q) == q.capacity = Unbounded \/ Len(q.items) < q.capacity

\* Queue.full
\* a full() that forgets the reserved slots
queue_full_items_only(q) ==
    q.capacity # Unbounded /\ q.capacity - Len(q.items) <= 0

queue_full(q) ==
    q.capacity # Unbounded /\ q.capacity - q.pending_put - Len(q.items) <= 0

\* Queue.reserve: the counter is raised before the check
\* a reserve that claims nothing
reserve_not_counted(q) == q

reserve(q) == [q EXCEPT !.pending_put = @ + 1]

\* a check that takes capacity 0 for a queue with no room at all
reserve_raises_zero_capacity(q) ==
    q.pending_put + 1 + Len(q.items) > q.capacity

reserve_raises(q) ==
    q.capacity # Unbounded /\ q.pending_put + 1 + Len(q.items) > q.capacity

\* Queue.unreseve
\* an unreseve that drops every reservation
unreseve_all(q) == [q EXCEPT !.pending_put = 0]

unreseve(q) == [q EXCEPT !.pending_put = @ - 1]

\* ----------------------------------------------------------------- policies
\* a FIFO policy that reverses the list
FIFO_control_policy_reversed(rs) == Reverse(rs)

FIFO_control_policy(rs) == rs

LIFO_control_policy(rs) == Reverse(rs)

\* list.sort(key): the element x goes behind every element whose key is not
\* larger (the sort is stable)
RECURSIVE sort_insert(_, _)
sort_insert(x, s) ==
    IF s = <<>> THEN <<x>>
    ELSE IF ExpectedTime[x.proc] < ExpectedTime[Head(s).proc]
         THEN <<x>> \o s
         ELSE <<Head(s)>> \o sort_insert(x, Tail(s))

RECURSIVE sort_by_expected_time(_)
sort_by_expected_time(rs) ==
    IF rs = <<>> THEN <<>>
    ELSE sort_insert(rs[Len(rs)],
                     sort_by_expected_time(SubSeq(rs, 1, Len(rs) - 1)))

\* an SPT policy that leaves the list as it is
SPT_control_policy_unsorted(rs) == rs

SPT_control_policy(rs) == sort_by_expected_time(rs)

control_policy(rs) ==
    CASE policy = "LIFO" -> LIFO_control_policy(rs)
      [] policy = "SPT" -> SPT_control_policy(rs)
      [] OTHER -> FIFO_control_policy(rs)

\* ---------------------------------------------------------------- Resource
\* Resource.full: the running start_process tasks fill the capacity
full(run) == Len(run) = capacity

\* Resourcex.get_free_process: the first State of the process whose
\* State.process is None (0: there is none)
get_free_process ==
    IF \E i \in 1..nstates : stateProc[i] = 0
    THEN CHOOSE i \in 1..nstates :
            stateProc[i] = 0 /\ \A j \in 1..(i - 1) : stateProc[j] # 0
    ELSE 0

\* ------------------------------------------------------------ control loop
\* for process in self.running_processes: if not process.is_alive: remove
RECURSIVE cleanup(_, _)
cleanup(run, i) ==
    IF i > Len(run) THEN run
    ELSE IF life[run[i]] # "alive" THEN cleanup(RemoveAt(run, i), i + 1)
         ELSE cleanup(run, i + 1)

\* the control loop has nothing to dispatch (control.py 215 / 391)
\* ProductionController.control_loop, line 219, and start_process, line 242:
\* reserved_requests_count after a dispatch and after a pop (the
\* TransportController does not count)
\* a dispatch that forgets to count the reservation
reserve_request_uncounted == reserved

reserve_request == IF kind = "production" THEN reserved + 1 ELSE reserved

\* a pop that forgets to give the reservation back
release_request_kept == reserved

release_request == IF kind = "production" THEN reserved - 1 ELSE reserved

\* a guard that does not look at the resource's capacity
no_dispatch_ignores_full(run) ==
    \/ requests = <<>>
    \/ (kind = "production" /\ reserved = Len(requests))

no_dispatch(run) ==
    \/ full(run)
    \/ requests = <<>>
    \/ (kind = "production" /\ reserved = Len(requests))

\* a loop that never re-arms the request signal
requested_again_never(run) == FALSE

\* control_loop, lines 222-224: after a dispatch the loop fires `requested`
\* itself when the resource is not full
requested_again(run) == ~full(run)

\* events.AnyOf(running_processes + [requested]) is met at construction iff
\* one of its events has already been processed
anyof_met(run, reqd) ==
    \/ \E x \in Range(run) : life[x] = "processed"
    \/ reqd = "processed"

\* the product of a request is in the input queue when it is requested;
\* that the upstream may fail to deliver it is tried on the capacity-1 LIFO
\* resource without setups
upstream_delivers ==
    IF kind = "production" /\ capacity = 1 /\ policy = "LIFO" /\ setups = {}
    THEN BOOLEAN ELSE {TRUE}

\* the processes requested of the resource: the three of Scenario E under
\* SPT, the two that have a setup state, or the one process
requested_processes ==
    IF policy = "SPT" THEN Procs
    ELSE IF setups = {"p1", "p2"} THEN {"p1", "p2"} ELSE {"p1"}

\* the ProductionController of prodsys and the one of the legacy prodsim
ProductionKinds == {"production", "legacy"}

\* Controller.request
request ==
    /\ ~crashed
    /\ kind \in ProductionKinds
    /\ nreq < MaxReq
    /\ \E p \in requested_processes :
         requests' = Append(requests, [id |-> nreq + 1, proc |-> p,
                                       origin |-> "none", target |-> "none"])
    /\ \E delivered \in upstream_delivers :
         inq' = IF delivered THEN inq \cup {nreq + 1} ELSE inq
    /\ nreq' = nreq + 1
    /\ subTime' = [subTime EXCEPT ![nreq + 1] = now]
    /\ IF requested = "pending"
       THEN /\ requested' = "triggered"
            /\ queue' = Insert(queue, Ev(now, "requested", 0))
       ELSE UNCHANGED <<requested, queue>>
    /\ UNCHANGED <<cfgVars, tstate, trVars, setupRun, now, reserved, running, cwait, ntask, life, treq,
                   users, reqWait, stateProc, psLife, wwait, outq, outq2, startTime,
                   pops, crashed, gwait, evals,
                   outstanding, lastCall, envVars, doubleFire, current_setup>>

\* the `requested` event is processed: the AnyOf of the control loop is met
requested_fires ==
    /\ Fires("requested")
    /\ now' = Head(queue).t
    /\ requested' = "processed"
    /\ IF cwait.st = "pending"
       THEN /\ cwait' = [cwait EXCEPT !.st = "triggered"]
            /\ queue' = Insert(Tail(queue), Ev(Head(queue).t, "anyof", 0))
       ELSE /\ queue' = Tail(queue)
            /\ UNCHANGED cwait
    /\ UNCHANGED <<cfgVars, tstate, trVars, setupRun, requests, reserved, running, ntask, life, treq,
                   users, reqWait, stateProc, psLife, wwait, inq, outq, outq2,
                   restVars, startTime, pops, crashed>>

\* a loop that keeps the fired signal
reset_requested_never(reqd) == reqd

\* control_loop, lines 210-211:
\* if self.requested.triggered: self.requested = events.Event(self.env)
reset_requested(reqd) == IF reqd # "pending" THEN "pending" ELSE reqd

\* ProductionController.control_loop / TransportController.control_loop:
\* one wake of the loop, up to the next yield
NotRequested(e) == e.k # "requested"

control_loop ==
    /\ Fires("anyof")
    /\ kind # "legacy"
    /\ now' = Head(queue).t
    /\ LET t == Head(queue).t
           q1 == IF requested # "pending"
                 THEN SelectSeq(Tail(queue), NotRequested) ELSE Tail(queue)
           run1 == cleanup(running, 1)
           reqd1 == reset_requested(requested)
       IN IF no_dispatch(run1)
          THEN /\ requested' = reqd1
               /\ UNCHANGED <<doubleFire, crashed>>
               /\ running' = run1
               /\ cwait' = [st |-> IF anyof_met(run1, "pending")
                                   THEN "triggered" ELSE "pending",
                            procs |-> Range(run1)]
               /\ queue' = IF anyof_met(run1, "pending")
                           THEN Insert(q1, Ev(t, "anyof", 0)) ELSE q1
               /\ UNCHANGED <<requests, reserved, ntask, life, evals>>
          ELSE LET tid == ntask + 1
                   run2 == Append(run1, tid)
                   refire == requested_again(run2)
                   met == anyof_met(run2, "pending")
               IN /\ tid \in Tids
                  /\ requests' = control_policy(requests)
                  /\ evals' = IF policy = "SPT"
                              THEN Append(evals, Len(requests)) ELSE evals
                  /\ reserved' = reserve_request
                  /\ ntask' = tid
                  /\ life' = [life EXCEPT ![tid] = "alive"]
                  /\ running' = run2
                  /\ requested' = IF refire THEN "triggered" ELSE reqd1
                  /\ doubleFire' = (doubleFire \/ (refire /\ reqd1 # "pending"))
                  /\ crashed' = (refire /\ reqd1 # "pending")
                  /\ cwait' = [st |-> IF met THEN "triggered" ELSE "pending",
                               procs |-> Range(run2)]
                  /\ queue' = Sched(q1,
                       (IF refire THEN <<Ev(t, "requested", 0)>> ELSE <<>>)
                       \o (IF met THEN <<Ev(t, "anyof", 0)>> ELSE <<>>)
                       \o <<Ev(t, "sp_timeout", tid)>>)
    /\ UNCHANGED <<cfgVars, tstate, trVars, setupRun, treq, users, reqWait, stateProc, psLife, wwait,
                   inq, outq, outq2, nreq, subTime, gwait, outstanding, lastCall, envVars,
                   current_setup, startTime, pops>>

\* a legacy loop with the re-fire of the prodsys loop
requested_again_legacy_refires(run) == ~full(run)

\* the legacy control loop ends with running_processes.append: it never
\* fires `requested` itself
requested_again_legacy(run) == FALSE

\* the legacy loop removes the completed processes only on a wake that
\* found `requested` not triggered
cleanup_legacy(run, reqd) == IF reqd # "pending" THEN run ELSE cleanup(run, 1)

\* ProductionController.control_loop of prodsim: one wake of the loop, up to
\* the next yield
control_loop_legacy ==
    /\ Fires("anyof")
    /\ kind = "legacy"
    /\ now' = Head(queue).t
    /\ LET t == Head(queue).t
           q1 == IF requested # "pending"
                 THEN SelectSeq(Tail(queue), NotRequested) ELSE Tail(queue)
           run1 == cleanup_legacy(running, requested)
           reqd1 == reset_requested(requested)
       IN IF full(run1) \/ requests = <<>>
          THEN /\ requested' = reqd1
               /\ running' = run1
               /\ cwait' = [st |-> IF anyof_met(run1, "pending")
                                   THEN "triggered" ELSE "pending",
                            procs |-> Range(run1)]
               /\ queue' = IF anyof_met(run1, "pending")
                           THEN Insert(q1, Ev(t, "anyof", 0)) ELSE q1
               /\ UNCHANGED <<requests, ntask, life, doubleFire, crashed>>
          ELSE LET tid == ntask + 1
                   run2 == Append(run1, tid)
                   refire == requested_again_legacy(run2)
                   met == anyof_met(run2, "pending")
               IN /\ tid \in Tids
                  /\ requests' = control_policy(requests)
                  /\ ntask' = tid
                  /\ life' = [life EXCEPT ![tid] = "alive"]
                  /\ running' = run2
                  /\ requested' = IF refire THEN "triggered" ELSE reqd1
                  /\ doubleFire' = (doubleFire \/ (refire /\ reqd1 # "pending"))
                  /\ crashed' = (refire /\ reqd1 # "pending")
                  /\ cwait' = [st |-> IF met THEN "triggered" ELSE "pending",
                               procs |-> Range(run2)]
                  /\ queue' = Sched(q1,
                       (IF refire THEN <<Ev(t, "requested", 0)>> ELSE <<>>)
                       \o (IF met THEN <<Ev(t, "anyof", 0)>> ELSE <<>>)
                       \o <<Ev(t, "sp_timeout", tid)>>)
    /\ UNCHANGED <<cfgVars, tstate, trVars, setupRun, treq, users, reqWait,
                   stateProc, psLife, wwait, inq, outq, outq2, nreq, subTime,
                   gwait, evals, outstanding, lastCall, envVars, reserved,
                   current_setup, startTime, pops>>

\* ------------------------------------------------------------ start_process
\* Resourcex.setup: the setup state that matches the process is run; without
\* one the setup ends at once
\* Resourcex.setup: self.current_process = input_state for the setup state
\* that matches the process; without one the configuration stays
current_process(p) == IF p \in setups THEN p ELSE current_setup

setup(p, tid, t) ==
    IF p \in setups THEN Ev(t + ProcessTime.setup, "setup_to", tid)
    ELSE Ev(t, "setup_proc", tid)

\* start_process after `yield self.env.timeout(0)`: requests.pop(0), the
\* reservation is given back, resource.setup(process) is started
start_process_pop ==
    /\ Fires("sp_timeout")
    /\ now' = Head(queue).t
    /\ LET tid == Head(queue).id
       IN IF requests = <<>>
          THEN /\ crashed' = TRUE
               /\ queue' = Tail(queue)
               /\ UNCHANGED <<requests, reserved, treq, pops, setupRun,
                              current_setup>>
          ELSE /\ treq' = [treq EXCEPT ![tid] = Head(requests)]
               /\ requests' = Tail(requests)
               /\ reserved' = release_request
               /\ pops' = [pops EXCEPT ![Head(requests).id] = @ + 1]
               /\ queue' = Insert(Tail(queue), setup(Head(requests).proc,
                                                     tid, Head(queue).t))
               /\ setupRun' = IF Head(requests).proc \in setups
                               THEN setupRun \cup {tid} ELSE setupRun
               /\ current_setup' = current_process(Head(requests).proc)
               /\ UNCHANGED crashed
    /\ UNCHANGED <<cfgVars, tstate, trVars, running, requested, cwait, ntask, life, users,
                   reqWait, stateProc, psLife, wwait, inq, outq, outq2, nreq,
                   subTime, gwait, evals, outstanding, lastCall, envVars,
                   doubleFire, startTime>>

\* the setup state has run for its duration; its process event is scheduled
setup_end ==
    /\ Fires("setup_to")
    /\ now' = Head(queue).t
    /\ setupRun' = setupRun \ {Head(queue).id}
    /\ queue' = Insert(Tail(queue),
                       Ev(Head(queue).t, "setup_proc", Head(queue).id))
    /\ UNCHANGED <<cfgVars, tstate, trVars, requests, reserved, running, requested,
                   cwait, ntask, life, treq, users, reqWait, stateProc,
                   psLife, wwait, inq, outq, outq2, restVars, startTime, pops,
                   crashed>>

\* `with resource.request() as req: yield req`: simpy grants a slot while
\* len(users) < capacity, otherwise the request waits in put_queue
start_process_acquire ==
    /\ Fires("setup_proc")
    /\ now' = Head(queue).t
    /\ LET tid == Head(queue).id
       IN IF Cardinality(users) < capacity
          THEN /\ users' = users \cup {tid}
               /\ queue' = Insert(Tail(queue), Ev(Head(queue).t, "req", tid))
               /\ UNCHANGED reqWait
          ELSE /\ reqWait' = Append(reqWait, tid)
               /\ queue' = Tail(queue)
               /\ UNCHANGED users
    /\ UNCHANGED <<cfgVars, tstate, trVars, setupRun, requests, reserved, running, requested, cwait,
                   ntask, life, treq, stateProc, psLife, wwait, inq, outq, outq2,
                   restVars, startTime, pops, crashed>>

\* the gets of get_next_product_for_process that find no matching item: one
\* for every input queue that does not hold the product
pending_gets(id) == IF id \in inq THEN ninq - 1 ELSE ninq

\* ProductionController.get_next_product_for_process: queue.get(filter) on
\* every input queue, then `yield AllOf(product_retrieval_events)`
get_next_product_for_process ==
    /\ Fires("req")
    /\ kind \in ProductionKinds
    /\ now' = Head(queue).t
    /\ LET tid == Head(queue).id
       IN /\ inq' = inq \ {treq[tid].id}
          /\ IF pending_gets(treq[tid].id) = 0
             THEN /\ queue' = Insert(Tail(queue),
                                     Ev(Head(queue).t, "get", tid))
                  /\ UNCHANGED gwait
             ELSE /\ queue' = Tail(queue)
                  /\ gwait' = gwait \cup {tid}
    /\ UNCHANGED <<cfgVars, tstate, trVars, setupRun, requests, reserved, running, requested, cwait,
                   ntask, life, treq, users, reqWait, stateProc, psLife,
                   wwait, outq, outq2, nreq, subTime, evals, outstanding, lastCall, envVars, doubleFire, current_setup,
                   startTime, pops, crashed>>

\* a StoreGet / StorePut event is processed: the AllOf that waits for it is met
store_event_done ==
    /\ \/ Fires("get")
       \/ Fires("put")
    /\ now' = Head(queue).t
    /\ queue' = Insert(Tail(queue),
                       Ev(Head(queue).t,
                          IF Head(queue).k = "get" THEN "allof_get"
                          ELSE "allof_put", Head(queue).id))
    /\ UNCHANGED <<cfgVars, tstate, trVars, setupRun, requests, reserved, running, requested, cwait,
                   ntask, life, treq, users, reqWait, stateProc, psLife,
                   wwait, inq, outq, outq2, restVars, startTime, pops, crashed>>

\* Controller.wait_for_free_process, one pass of its loop for task tid:
\* the events it schedules and the AnyOf it registers
\* [state.process for state in possible_states
\*            if state.process is not None and state.process.is_alive]
alive_state_processes ==
    {stateProc[i] : i \in {j \in 1..nstates :
                              stateProc[j] # 0 /\ psLife[stateProc[j]] = "running"}}

wait_events(tid, t) ==
    IF get_free_process # 0 THEN <<Ev(t, "w_proc", tid)>>
    ELSE IF alive_state_processes # {} THEN <<>>
    ELSE <<Ev(t, "w_anyof", tid)>>

wait_register(tid) ==
    IF get_free_process = 0 /\ alive_state_processes # {}
    THEN Append(wwait, [w |-> tid, on |-> alive_state_processes])
    ELSE wwait

wait_for_free_process ==
    /\ \/ Fires("allof_get")
       \/ Fires("w_anyof")
    /\ now' = Head(queue).t
    /\ queue' = Sched(Tail(queue), wait_events(Head(queue).id, Head(queue).t))
    /\ wwait' = wait_register(Head(queue).id)
    /\ tstate' = [tstate EXCEPT ![Head(queue).id] = get_free_process]
    /\ tleg' = IF kind = "transport" /\ Head(queue).k = "allof_get"
               THEN [tleg EXCEPT ![Head(queue).id] = "loaded"] ELSE tleg
    /\ UNCHANGED <<cfgVars, loc, srcq, tq, setupRun, requests, reserved, running, requested, cwait,
                   ntask, life, treq, users, reqWait, stateProc, psLife,
                   inq, outq, outq2, restVars, startTime, pops, crashed>>

\* the duration the time model of the State yields
process_time(tid) ==
    IF kind = "transport" THEN ProcessTime.transport
    ELSE ExpectedTime[treq[tid].proc]

\* ProductionController.run_process / TransportController.run_process
\* (started by run_transport for the one link of the path): input_state.process =
\* env.process(input_state.process_state()); the State runs for its duration
run_process ==
    /\ Fires("w_proc")
    /\ now' = Head(queue).t
    /\ LET tid == Head(queue).id
       IN /\ stateProc' = [stateProc EXCEPT ![tstate[tid]] = tid]
          /\ psLife' = [psLife EXCEPT ![tid] = "running"]
          /\ startTime' = [startTime EXCEPT ![treq[tid].id] =
                                               Append(@, Head(queue).t)]
          /\ queue' = Insert(Tail(queue),
                             Ev(Head(queue).t + process_time(tid), "ps_to", tid))
    /\ UNCHANGED <<cfgVars, tstate, trVars, setupRun, requests, reserved, running, requested, cwait,
                   ntask, life, treq, users, reqWait, wwait, inq, outq, outq2,
                   restVars, pops, crashed>>

\* State.process_state after its timeout: the occupation is over
process_state_end ==
    /\ Fires("ps_to")
    /\ now' = Head(queue).t
    /\ psLife' = [psLife EXCEPT ![Head(queue).id] = "done"]
    /\ queue' = Insert(Tail(queue), Ev(Head(queue).t, "ps_proc", Head(queue).id))
    /\ UNCHANGED <<cfgVars, tstate, trVars, setupRun, requests, reserved, running, requested, cwait,
                   ntask, life, treq, users, reqWait, stateProc, wwait, inq,
                   outq, outq2, restVars, startTime, pops, crashed>>

\* the process event of a State run is processed: run_process ends, and the
\* AnyOf of every wait_for_free_process registered on it is met
WaitsOn(x) == LET on(e) == x \in e.on IN SelectSeq(wwait, on)
WaitsNotOn(x) == LET off(e) == x \notin e.on IN SelectSeq(wwait, off)

process_state_done ==
    /\ Fires("ps_proc")
    /\ now' = Head(queue).t
    /\ LET tid == Head(queue).id
           t == Head(queue).t
           ws == WaitsOn(tid)
       IN /\ psLife' = [psLife EXCEPT ![tid] = "processed"]
          /\ wwait' = WaitsNotOn(tid)
          /\ queue' = Sched(Tail(queue),
                            <<Ev(t, "r_proc", tid)>>
                            \o [i \in 1..Len(ws) |-> Ev(t, "w_anyof", ws[i].w)])
    /\ UNCHANGED <<cfgVars, tstate, trVars, setupRun, requests, reserved, running, requested, cwait,
                   ntask, life, treq, users, reqWait, stateProc, inq, outq, outq2,
                   restVars, startTime, pops, crashed>>

\* start_process after run_process: production_state.process = None and
\* ProductionController.put_product_to_output_queue
put_product_to_output_queue ==
    /\ Fires("r_proc")
    /\ kind \in ProductionKinds
    /\ now' = Head(queue).t
    /\ LET tid == Head(queue).id
       IN /\ stateProc' = [stateProc EXCEPT ![tstate[tid]] = 0]
          /\ outq' = Append(outq, treq[tid].id)
          /\ outq2' = IF noutq > 1 THEN Append(outq2, treq[tid].id)
                       ELSE outq2
          /\ queue' = Insert(Tail(queue), Ev(Head(queue).t, "put", tid))
    /\ UNCHANGED <<cfgVars, tstate, trVars, setupRun, requests, reserved, running, requested, cwait,
                   ntask, life, treq, users, reqWait, psLife, wwait, inq,
                   restVars, startTime, pops, crashed>>

\* ---------------------------------------------------- transport start_process
\* the links of a LinkTransportProcess: from the depot T to the source S,
\* from S to the production resource R and to the sink K, and back from R
NoLinks == {}
Links == {<<"T", "S">>, <<"S", "R">>, <<"S", "K">>, <<"R", "S">>}

\* the process of the transport requests: a LinkTransportProcess if the
\* resource has links
transport_process == IF links # NoLinks THEN "l1" ELSE "p1"

\* path_finder.find_path: there is a path along the links, of at most n
\* links
RECURSIVE find_path(_, _, _)
find_path(from, to, n) ==
    \/ from = to
    \/ n > 0 /\ \E l \in links : l[1] = from /\ find_path(l[2], to, n - 1)

\* TransportController.find_path_to_origin raises ValueError: a
\* LinkTransportProcess with no path from the resource to the origin
find_path_to_origin_raises(tid) ==
    /\ treq[tid].proc = "l1"
    /\ ~find_path(loc, treq[tid].origin, Cardinality(links))

\* a product at the source asks for a transport to a target: the router
\* admits a production resource only while its input queue is not full, the
\* slot is reserved, and the transport controller is requested
transport_request ==
    /\ ~crashed
    /\ kind = "transport"
    /\ nreq < MaxReq
    /\ \E tg \in {"R", "K"} :
         /\ tg = "R" => ~queue_full(tq)
         /\ tq' = IF tg = "R" THEN reserve(tq) ELSE tq
         /\ requests' = Append(requests, [id |-> nreq + 1,
                                          proc |-> transport_process,
                                          origin |-> "S", target |-> tg])
    /\ srcq' = srcq \cup {nreq + 1}
    /\ nreq' = nreq + 1
    /\ subTime' = [subTime EXCEPT ![nreq + 1] = now]
    /\ IF requested = "pending"
       THEN /\ requested' = "triggered"
            /\ queue' = Insert(queue, Ev(now, "requested", 0))
       ELSE UNCHANGED <<requested, queue>>
    /\ UNCHANGED <<cfgVars, tstate, loc, tleg, setupRun, now, reserved, running,
                   cwait, ntask, life, treq, users, reqWait, stateProc,
                   psLife, wwait, inq, outq, outq2, startTime, pops, crashed, gwait, evals,
                   outstanding, lastCall, envVars, doubleFire, current_setup>>

\* TransportController.get_next_product_for_process: queue.get(filter) on
\* the origin's output queue
pick_up(tid, t) ==
    IF treq[tid].id \in srcq THEN <<Ev(t, "get", tid)>> ELSE <<>>

\* TransportController.start_process once the slot is granted: an empty leg
\* to the origin if the resource is elsewhere, else the pick-up
transport_begin ==
    /\ Fires("req")
    /\ kind = "transport"
    /\ now' = Head(queue).t
    /\ LET tid == Head(queue).id
           t == Head(queue).t
       IN IF treq[tid].origin # loc /\ find_path_to_origin_raises(tid)
          THEN \* the ValueError leaves the `with` block, which gives the
               \* slot back, and ends the task; the AnyOf of the control
               \* loop, which holds the task, fails with it and the
               \* exception leaves control_loop and the simulation run
               /\ users' = users \ {tid}
               /\ life' = [life EXCEPT ![tid] = "failed"]
               /\ crashed' = TRUE
               /\ queue' = Tail(queue)
               /\ UNCHANGED <<tleg, wwait, tstate, srcq>>
          ELSE IF treq[tid].origin # loc
          THEN /\ tleg' = [tleg EXCEPT ![tid] = "empty"]
               /\ queue' = Sched(Tail(queue), wait_events(tid, t))
               /\ wwait' = wait_register(tid)
               /\ tstate' = [tstate EXCEPT ![tid] = get_free_process]
               /\ UNCHANGED <<srcq, users, life, crashed>>
          ELSE /\ queue' = Sched(Tail(queue), pick_up(tid, t))
               /\ srcq' = srcq \ {treq[tid].id}
               /\ UNCHANGED <<tleg, wwait, tstate, users, life, crashed>>
    /\ UNCHANGED <<cfgVars, loc, tq, setupRun, requests, reserved, running,
                   requested, cwait, ntask, treq, reqWait,
                   stateProc, psLife, inq, outq, outq2, restVars, startTime,
                   pops>>

\* TransportController.run_transport after the run_process of its link:
\* update_location(next_location), transport_state.process = None
run_transport ==
    /\ Fires("r_proc")
    /\ kind = "transport"
    /\ now' = Head(queue).t
    /\ LET tid == Head(queue).id
       IN /\ loc' = IF tleg[tid] = "empty" THEN treq[tid].origin
                    ELSE treq[tid].target
          /\ stateProc' = [stateProc EXCEPT ![tstate[tid]] = 0]
          /\ queue' = Insert(Tail(queue), Ev(Head(queue).t, "rt_proc", tid))
    /\ UNCHANGED <<cfgVars, tstate, tleg, srcq, tq, setupRun, requests, reserved,
                   running, requested, cwait, ntask, life, treq, users,
                   reqWait, psLife, wwait, inq, outq, outq2, restVars, startTime,
                   pops, crashed>>

\* Store.put on the target's input queue: the item is appended while
\* len(items) < capacity, otherwise the put waits
put_product_to_input_queue(tid, tg) ==
    IF tg # "R" THEN tq
    ELSE IF has_room(tq) THEN [tq EXCEPT !.items = Append(@, treq[tid].id)]
    ELSE [tq EXCEPT !.putters = Append(@, tid)]

\* TransportController.start_process after run_transport: the pick-up after
\* the empty leg, the drop-off after the loaded leg
transport_leg_done ==
    /\ Fires("rt_proc")
    /\ now' = Head(queue).t
    /\ LET tid == Head(queue).id
           t == Head(queue).t
       IN IF tleg[tid] = "empty"
          THEN /\ queue' = Sched(Tail(queue), pick_up(tid, t))
               /\ srcq' = srcq \ {treq[tid].id}
               /\ UNCHANGED tq
          ELSE /\ tq' = put_product_to_input_queue(tid, treq[tid].target)
               /\ queue' = IF treq[tid].target = "R" /\ ~has_room(tq)
                           THEN Tail(queue)
                           ELSE Insert(Tail(queue), Ev(t, "put", tid))
               /\ UNCHANGED srcq
    /\ UNCHANGED <<cfgVars, tstate, loc, tleg, setupRun, requests, reserved, running,
                   requested, cwait, ntask, life, treq, users, reqWait,
                   stateProc, psLife, wwait, inq, outq, outq2, restVars, startTime,
                   pops, crashed>>

\* the production resource at the target takes a product out of its input
\* queue (ProductionController.get_next_product_for_process of the target);
\* a put that waited for room is then carried out
target_get ==
    /\ ~crashed
    /\ kind = "transport"
    /\ \E i \in 1..Len(tq.items) :
         LET left == RemoveAt(tq.items, i)
         IN IF tq.putters # <<>>
            THEN /\ tq' = [tq EXCEPT
                             !.items = Append(left, treq[Head(tq.putters)].id),
                             !.putters = Tail(@)]
                 /\ queue' = Insert(queue, Ev(now, "put", Head(tq.putters)))
            ELSE /\ tq' = [tq EXCEPT !.items = left]
                 /\ UNCHANGED queue
    /\ UNCHANGED <<cfgVars, tstate, loc, tleg, srcq, setupRun, now, requests,
                   reserved, running, requested, cwait, ntask, life, treq,
                   users, reqWait, stateProc, psLife, wwait, inq, outq, outq2,
                   restVars, startTime, pops, crashed>>

\* a transport that also unreserves at a sink
unreserve_input_queues_any_target(tg, q) == unreseve(q)

\* TransportController.start_process after the drop-off:
\* if isinstance(target, ProductionResource): target.unreserve_input_queues()
unreserve_input_queues(tg, q) == IF tg = "R" THEN unreseve(q) ELSE q

\* the end of start_process: (transport to a production resource:
\* target.unreserve_input_queues()), finished_process.succeed(), the slot is
\* released on leaving the `with` block, the task ends
start_process_finish ==
    /\ Fires("allof_put")
    /\ now' = Head(queue).t
    /\ LET tid == Head(queue).id
           t == Head(queue).t
       IN /\ users' = users \ {tid}
          /\ life' = [life EXCEPT ![tid] = "triggered"]
          /\ tq' = IF kind = "transport"
                   THEN unreserve_input_queues(treq[tid].target, tq) ELSE tq
          /\ queue' = Sched(Tail(queue),
                            <<Ev(t, "release", tid), Ev(t, "sp_proc", tid)>>)
    /\ UNCHANGED <<cfgVars, tstate, loc, tleg, srcq, setupRun, requests, reserved, running, requested, cwait,
                   ntask, treq, reqWait, stateProc, psLife, wwait, inq, outq, outq2,
                   restVars, startTime, pops, crashed>>

\* the Release event is processed: simpy grants the slot to a waiting request
resource_release ==
    /\ Fires("release")
    /\ now' = Head(queue).t
    /\ IF reqWait # <<>> /\ Cardinality(users) < capacity
       THEN /\ users' = users \cup {Head(reqWait)}
            /\ reqWait' = Tail(reqWait)
            /\ queue' = Insert(Tail(queue),
                               Ev(Head(queue).t, "req", Head(reqWait)))
       ELSE /\ queue' = Tail(queue)
            /\ UNCHANGED <<users, reqWait>>
    /\ UNCHANGED <<cfgVars, tstate, trVars, setupRun, requests, reserved, running, requested, cwait,
                   ntask, life, treq, stateProc, psLife, wwait, inq, outq, outq2,
                   restVars, startTime, pops, crashed>>

\* the process event of a start_process task is processed: the AnyOf of the
\* control loop is met if it contains the task
start_process_done ==
    /\ Fires("sp_proc")
    /\ now' = Head(queue).t
    /\ life' = [life EXCEPT ![Head(queue).id] = "processed"]
    /\ IF cwait.st = "pending" /\ Head(queue).id \in cwait.procs
       THEN /\ cwait' = [cwait EXCEPT !.st = "triggered"]
            /\ queue' = Insert(Tail(queue), Ev(Head(queue).t, "anyof", 0))
       ELSE /\ queue' = Tail(queue)
            /\ UNCHANGED cwait
    /\ UNCHANGED <<cfgVars, tstate, trVars, setupRun, requests, reserved, running, requested, ntask,
                   treq, users, reqWait, stateProc, psLife, wwait, inq, outq, outq2,
                   restVars, startTime, pops, crashed>>

\* ------------------------------------------------------------------ router
Routers == {"SimpleRouter", "CapabilityRouter"}
Heuristics == {"FIFO", "random", "shortest_queue"}

\* the input queues a resource of the routed plant can have
QueueStates ==
    {[items |-> <<>>, pending_put |-> 0, capacity |-> 2],
     [items |-> <<0>>, pending_put |-> 0, capacity |-> 2],
     [items |-> <<0>>, pending_put |-> 1, capacity |-> 2],
     [items |-> <<0, 0>>, pending_put |-> 0, capacity |-> 2],
     [items |-> <<0, 0>>, pending_put |-> 0, capacity |-> Unbounded]}

\* a resource: a production resource has one input queue, a transport
\* resource has none; offers: the target process (its ID, or its capability
\* for a capability process) is in the resource's catalogue; busy: the
\* running occupations fill the capacity (Resource.full)
ResourceKinds ==
    [prod : {TRUE}, offers : BOOLEAN, busy : BOOLEAN,
     input_queues : {<<q>> : q \in QueueStates}]
    \cup [prod : {FALSE}, offers : BOOLEAN, busy : {FALSE},
          input_queues : {<<>>}]

\* ResourceFactory.get_resources_with_process: the indices of the resources
\* that offer the process, in the order of resource_factory.resources
RECURSIVE get_resources_with_process(_)
get_resources_with_process(i) ==
    IF i > Len(resources) THEN <<>>
    ELSE (IF resources[i].offers THEN <<i>> ELSE <<>>)
         \o get_resources_with_process(i + 1)

\* any(q.full() for q in resource.input_queues)
any_queue_full(i) ==
    \E k \in 1..Len(resources[i].input_queues) :
        queue_full(resources[i].input_queues[k])

\* SimpleRouter.get_next_resource, lines 46-54: the candidates that are left
\* a filter that keeps every candidate
left_resources_unfiltered(possible) == possible

left_resources(possible) ==
    LET keep(i) == ~(resources[i].prod /\ any_queue_full(i))
    IN SelectSeq(possible, keep)

\* CapabilityRouter.get_next_resource, lines 83-88
RECURSIVE capable_resources(_)
capable_resources(i) ==
    IF i > Len(resources) THEN <<>>
    ELSE (IF resources[i].offers /\ ~any_queue_full(i) THEN <<i>> ELSE <<>>)
         \o capable_resources(i + 1)

\* the outcomes of a call: a resource (its index in
\* resource_factory.resources), None, or an exception
Idle == [status |-> "idle", resource |-> 0]
None == [status |-> "None", resource |-> 0]
Raises == [status |-> "raise", resource |-> 0]
Returns(i) == [status |-> "resource", resource |-> i]

\* the routing heuristics: the set of outcomes a call can have
FIFO_routing_heuristic(rs) ==
    IF rs = <<>> THEN {Raises} ELSE {Returns(rs[1])}

random_routing_heuristic(rs) ==
    IF rs = <<>> THEN {Raises} ELSE {Returns(i) : i \in Range(rs)}

\* a heuristic that takes the reserved slots for items
shortest_queue_counts_reserved(rs) ==
    LET queue_list == {<<i, k>> \in Range(rs) \X {1} : resources[i].prod}
        len(x) == Len(resources[x[1]].input_queues[x[2]].items)
                  + resources[x[1]].input_queues[x[2]].pending_put
        min_length == CHOOSE m \in {len(x) : x \in queue_list} :
                          \A x \in queue_list : m <= len(x)
    IN IF queue_list # {}
       THEN {Returns(x[1]) : x \in {y \in queue_list : len(y) <= min_length}}
       ELSE random_routing_heuristic(rs)

shortest_queue_routing_heuristic(rs) ==
    LET queue_list == {<<i, k>> \in Range(rs) \X {1} : resources[i].prod}
        len(x) == Len(resources[x[1]].input_queues[x[2]].items)
        min_length == CHOOSE m \in {len(x) : x \in queue_list} :
                          \A x \in queue_list : m <= len(x)
    IN IF queue_list # {}
       THEN {Returns(x[1]) : x \in {y \in queue_list : len(y) <= min_length}}
       ELSE random_routing_heuristic(rs)

routing_heuristic(rs) ==
    CASE router.heuristic = "FIFO" -> FIFO_routing_heuristic(rs)
      [] router.heuristic = "random" -> random_routing_heuristic(rs)
      [] OTHER -> shortest_queue_routing_heuristic(rs)

\* SimpleRouter.get_next_resource
SimpleRouter_get_next_resource ==
    LET left == left_resources(get_resources_with_process(1))
    IN IF left = <<>> THEN {None} ELSE routing_heuristic(left)

\* CapabilityRouter.get_next_resource_per_ID
get_next_resource_per_ID == routing_heuristic(get_resources_with_process(1))

\* CapabilityRouter.get_next_resource
CapabilityRouter_get_next_resource ==
    IF router.ptype = "transport" THEN get_next_resource_per_ID
    ELSE IF router.ptype # "capability" THEN {Raises}
    ELSE IF capable_resources(1) = <<>> THEN {None}
    ELSE routing_heuristic(capable_resources(1))

\* the list the routing heuristic is called with
routed_list ==
    IF router.router = "SimpleRouter"
    THEN left_resources(get_resources_with_process(1))
    ELSE IF router.ptype = "capability" THEN capable_resources(1)
    ELSE get_resources_with_process(1)

\* the routing heuristic is reached: no early return None and no ValueError
heuristic_called ==
    IF router.router = "SimpleRouter" \/ router.ptype = "capability"
    THEN routed_list # <<>>
    ELSE router.ptype = "transport"

\* what the heuristic leaves of the list it was called with:
\* FIFO_routing_heuristic pops its head, random_routing_heuristic sorts it
\* by ID, which is the order it has
heuristic_argument_after(rs) ==
    IF router.heuristic = "FIFO" /\ rs # <<>> THEN Tail(rs) ELSE rs

\* resource_factory.resources after the call
\* a router that hands resource_factory.resources itself to the heuristic
factory_list_shared(after) ==
    IF heuristic_called THEN [j \in 1..Len(after) |-> resources[after[j]]]
    ELSE resources

\* get_resources_with_process, left_resources and possible_resources are
\* new lists: what the heuristic does to its argument stays out of the
\* factory's list
factory_list(after) == resources

\* one call of router.get_next_resource(target_process)
get_next_resource ==
    /\ kind = "router"
    /\ Len(decisions) < MaxDecisions
    /\ result' \in IF router.router = "SimpleRouter"
                    THEN SimpleRouter_get_next_resource
                    ELSE CapabilityRouter_get_next_resource
    /\ decisions' = Append(decisions, result')
    /\ resources' = factory_list(heuristic_argument_after(routed_list))
    /\ UNCHANGED <<kind, capacity, policy, setups, nstates, router, links,
                   now, queue, requests, reserved, running, requested, cwait,
                   ntask, life, treq, users, reqWait, stateProc, tstate,
                   psLife, wwait, inq, outq, outq2, ninq, noutq, setupRun, loc,
                   tleg, srcq, tq, nreq, subTime, gwait, evals, outstanding,
                   lastCall, envVars, doubleFire, current_setup, startTime, pops, crashed>>

\* ------------------------------------------------------- the Queue's calls
\* everything but the queue under test and the record of its calls
plantVars == <<kind, capacity, policy, setups, nstates, router, resources,
              result, decisions, links, now, queue, requests, reserved, running, requested,
              cwait, ntask, life, treq, users, reqWait, stateProc, tstate,
              psLife, wwait, inq, outq, outq2, ninq, noutq, setupRun, loc, tleg, srcq, nreq,
              subTime, gwait, evals, envVars, doubleFire, current_setup,
              startTime, pops,
              crashed>>

NoCall == [op |-> "none", raised |-> FALSE, matched |-> FALSE, n |-> 0,
           before |-> [items |-> <<>>, pending_put |-> 0, putters |-> <<>>]]

\* the record of a call op made on the queue q
Call(op, q, raised, matched) ==
    [op |-> op, raised |-> raised, matched |-> matched, n |-> lastCall.n + 1,
     before |-> [items |-> q.items, pending_put |-> q.pending_put,
                 putters |-> q.putters]]

\* a caller runs queue.reserve()
queue_reserve ==
    /\ kind = "queue"
    /\ lastCall.n < MaxCalls
    /\ tq' = reserve(tq)
    /\ lastCall' = Call("reserve", tq, reserve_raises(tq), FALSE)
    /\ outstanding' = IF reserve_raises(tq) THEN outstanding
                      ELSE outstanding + 1
    /\ UNCHANGED plantVars

\* a caller runs queue.unreseve(): matched when a successful reserve() is
\* outstanding
queue_unreseve ==
    /\ kind = "queue"
    /\ lastCall.n < MaxCalls
    /\ tq' = unreseve(tq)
    /\ lastCall' = Call("unreseve", tq, FALSE, outstanding > 0)
    /\ outstanding' = IF outstanding > 0 THEN outstanding - 1 ELSE 0
    /\ UNCHANGED plantVars

\* a caller runs queue.put(item): Queue inherits put from simpy's
\* FilterStore, which appends while len(items) < capacity and otherwise
\* keeps the put waiting
queue_put ==
    /\ kind = "queue"
    /\ lastCall.n < MaxCalls
    /\ tq' = IF has_room(tq) THEN [tq EXCEPT !.items = Append(@, 0)]
             ELSE [tq EXCEPT !.putters = Append(@, 0)]
    /\ lastCall' = Call("put", tq, FALSE, FALSE)
    /\ UNCHANGED <<plantVars, outstanding>>

\* a caller runs queue.get(): an item is taken out and a waiting put is
\* carried out
queue_get ==
    /\ kind = "queue"
    /\ lastCall.n < MaxCalls
    /\ tq.items # <<>>
    /\ tq' = IF tq.putters # <<>>
             THEN [tq EXCEPT !.items = Append(Tail(@), Head(tq.putters)),
                             !.putters = Tail(@)]
             ELSE [tq EXCEPT !.items = Tail(@)]
    /\ lastCall' = Call("get", tq, FALSE, FALSE)
    /\ UNCHANGED <<plantVars, outstanding>>

\* ------------------------------------------------------------ specification
\* the plant of a controller run: no router is called
\* ------------------------------------------------------------- environment
Delays == {0, 1}
TimeRanges == {1, 2}

NoRun == [outcome |-> "none", time_range |-> 0]

envRest == <<kind, capacity, policy, setups, nstates, router, resources,
            result, decisions, links, requests, reserved, running, requested, cwait, ntask,
            life, treq, users, reqWait, stateProc, tstate, psLife, wwait,
            inq, outq, outq2, ninq, noutq, setupRun, trVars, subTime, gwait, evals, outstanding,
            lastCall, doubleFire, current_setup, startTime, pops, crashed>>

\* env.process(generator) schedules an Initialize event for this instant,
\* env.timeout(delay) and event.succeed() a normal event
env_schedule ==
    /\ kind = "env"
    /\ nreq < MaxCalls
    /\ \E k \in {"initialize", "timeout"}, delay \in Delays :
         /\ k = "initialize" => delay = 0
         /\ queue' = Insert(queue, Ev(now + delay, k, nreq + 1))
    /\ nreq' = nreq + 1
    /\ UNCHANGED <<now, envRun, fired, envRest>>

\* env.step(): the first event of the queue is processed
env_step ==
    /\ kind = "env"
    /\ queue # <<>>
    /\ now' = Head(queue).t
    /\ fired' = Append(fired, Head(queue))
    /\ queue' = Tail(queue)
    /\ UNCHANGED <<nreq, envRun, envRest>>

\* Environment.run(time_range): inside temp_seed it calls self.run(time_range),
\* which is this method again; the calls nest until the interpreter raises
\* RecursionError, and no event is processed
Environment_run ==
    /\ kind = "env"
    /\ envRun = NoRun
    /\ \E time_range \in TimeRanges :
         envRun' = [outcome |-> "RecursionError", time_range |-> time_range]
    /\ UNCHANGED <<now, queue, nreq, fired, envRest>>

NoRouter == [router |-> "none", heuristic |-> "none", ptype |-> "none"]

InitEnv ==
    /\ kind = "env"
    /\ tq = [items |-> <<>>, pending_put |-> 0, capacity |-> Unbounded,
             putters |-> <<>>]
    /\ router = NoRouter
    /\ resources = <<>>
    /\ capacity = 1
    /\ policy = "FIFO"
    /\ setups = {}
    /\ nstates = 1

InitRouter ==
    /\ kind = "router"
    /\ router \in [router : {"SimpleRouter"}, heuristic : Heuristics,
                    ptype : {"production"}]
                   \cup [router : {"CapabilityRouter"}, heuristic : Heuristics,
                         ptype : {"production", "transport", "capability"}]
    /\ resources \in [1..NumRes -> ResourceKinds]
    \* a capability process is a production process: no transport resource
    \* has one in its catalogue
    /\ router.ptype = "capability" =>
           \A i \in 1..NumRes : resources[i].offers => resources[i].prod
    /\ capacity = 1
    /\ policy = "FIFO"
    /\ setups = {}
    /\ nstates = 1
    /\ tq = [items |-> <<>>, pending_put |-> 0, capacity |-> 1,
             putters |-> <<>>]

InitQueue ==
    /\ kind = "queue"
    /\ \E c \in QueueCapacities \cup {Unbounded} :
         tq = [items |-> <<>>, pending_put |-> 0, capacity |-> c,
               putters |-> <<>>]
    /\ router = NoRouter
    /\ resources = <<>>
    /\ capacity = 1
    /\ policy = "FIFO"
    /\ setups = {}
    /\ nstates = 1

\* the legacy prodsim ProductionController on a resource of capacity 2
InitLegacy ==
    /\ kind = "legacy"
    /\ capacity = 2
    /\ policy = "FIFO"
    /\ setups = {}
    /\ nstates = 2
    /\ tq = [items |-> <<>>, pending_put |-> 0, capacity |-> Unbounded,
             putters |-> <<>>]
    /\ router = NoRouter
    /\ resources = <<>>

InitController ==
    /\ kind \in {"production", "transport"}
    /\ capacity \in Capacities
    /\ policy \in (IF capacity = 1 \/ (kind = "production" /\ capacity = 2)
                    THEN Policies ELSE {"FIFO"})
                   \cup (IF kind = "production" /\ capacity = 1
                         THEN {"SPT"} ELSE {})
    /\ nstates \in {n \in StateIds : n <= capacity}
    /\ setups \in (IF kind = "production" /\ capacity < 3 /\ policy # "SPT"
                    THEN {{}, {"p1"}} ELSE {{}})
                   \cup (IF /\ kind = "production" /\ capacity = 2
                             /\ policy = "FIFO" /\ nstates = 2
                          THEN {{"p1", "p2"}} ELSE {})
    /\ \E c \in QueueCapacities :
         tq = [items |-> <<>>, pending_put |-> 0, capacity |-> c,
               putters |-> <<>>]
    /\ router = NoRouter
    /\ resources = <<>>

\* the numbers of input and output queues of the resource: one of each,
\* and on the FIFO production resource of capacity 2 with two States also
\* two of one of them
queue_numbers ==
    {[inputs |-> 1, outputs |-> 1]}
    \cup (IF /\ kind = "production" /\ capacity = 2 /\ policy = "FIFO"
              /\ setups = {} /\ nstates = 2
           THEN {[inputs |-> 2, outputs |-> 1], [inputs |-> 1, outputs |-> 2]}
           ELSE {})

Init ==
    /\ InitController \/ InitLegacy \/ InitRouter \/ InitQueue \/ InitEnv
    /\ result = Idle
    /\ decisions = <<>>
    /\ links \in {NoLinks}
                  \cup (IF /\ kind = "transport" /\ capacity = 1
                            /\ policy = "FIFO" /\ tq.capacity = 1
                         THEN {Links} ELSE {})
    /\ setupRun = {}
    /\ loc = "T"
    /\ tleg = [x \in Tids |-> "none"]
    /\ srcq = {}
    /\ now = 0
    /\ queue = <<>>
    /\ requests = <<>>
    /\ reserved = 0
    /\ running = <<>>
    /\ requested = "pending"
    /\ cwait = [st |-> "pending", procs |-> {}]
    /\ ntask = 0
    /\ life = [x \in Tids |-> "none"]
    /\ treq = [x \in Tids |-> NoRequest]
    /\ users = {}
    /\ reqWait = <<>>
    /\ stateProc = [i \in StateIds |-> 0]
    /\ tstate = [x \in Tids |-> 0]
    /\ psLife = [x \in Tids |-> "none"]
    /\ wwait = <<>>
    /\ inq = {}
    /\ outq = <<>>
    /\ outq2 = <<>>
    /\ \E n \in queue_numbers : ninq = n.inputs /\ noutq = n.outputs
    /\ nreq = 0
    /\ subTime = [r \in 1..MaxReq |-> 0]
    /\ gwait = {}
    /\ evals = <<>>
    /\ outstanding = 0
    /\ lastCall = NoCall
    /\ envRun = NoRun
    /\ fired = <<>>
    /\ doubleFire = FALSE
    /\ current_setup = "none"
    /\ startTime = [r \in 1..MaxReq |-> <<>>]
    /\ pops = [r \in 1..MaxReq |-> 0]
    /\ crashed = FALSE

Next ==
    \/ request
    \/ requested_fires
    \/ control_loop
    \/ control_loop_legacy
    \/ start_process_pop
    \/ setup_end
    \/ start_process_acquire
    \/ transport_request
    \/ transport_begin
    \/ run_transport
    \/ transport_leg_done
    \/ target_get
    \/ get_next_product_for_process
    \/ store_event_done
    \/ wait_for_free_process
    \/ run_process
    \/ process_state_end
    \/ process_state_done
    \/ put_product_to_output_queue
    \/ start_process_finish
    \/ resource_release
    \/ start_process_done
    \/ get_next_resource
    \/ queue_reserve
    \/ queue_unreseve
    \/ queue_put
    \/ queue_get
    \/ env_schedule
    \/ env_step
    \/ Environment_run

Spec == Init /\ [][Next]_vars

\* the run of a FIFO production controller: the steps in which the
\* environment processes an event of the queue, and the run as a whole, in
\* which the environment goes on processing events while there are any
ProductionStep ==
    \/ requested_fires
    \/ control_loop
    \/ start_process_pop
    \/ setup_end
    \/ start_process_acquire
    \/ get_next_product_for_process
    \/ store_event_done
    \/ wait_for_free_process
    \/ run_process
    \/ process_state_end
    \/ process_state_done
    \/ put_product_to_output_queue
    \/ start_process_finish
    \/ resource_release
    \/ start_process_done

ProductionNext == request \/ ProductionStep

InitProduction == Init /\ kind = "production" /\ policy = "FIFO"

LiveSpec ==
    InitProduction /\ [][ProductionNext]_vars /\ WF_vars(ProductionStep)

\* ------------------------------------------------------------------- claims
\* the tasks whose production or transport State is running
Occupations == {x \in Tids : psLife[x] = "running"}

C2_OccupationsWithinCapacity ==
    kind \in {"production", "transport"} =>
        Cardinality(Occupations) + Cardinality(setupRun) <= capacity

\* C2 witness: a resource of capacity 2 whose slots are all occupied while a
\* request is still pending
C2_Witness ==
    /\ capacity = 2
    /\ Cardinality(Occupations) + Cardinality(setupRun) = 2
    /\ requests # <<>>

\* C3: a State instance runs for at most one task at a time: with one State
\* instance of the process and capacity >= 2, wait_for_free_process never
\* hands the State to a second task while the first still runs on it
C3_OneTaskPerState ==
    (kind \in {"production", "transport"} /\ nstates = 1 /\ capacity >= 2) =>
        \A p \in StateIds :
            Cardinality({x \in Occupations : tstate[x] = p}) <= 1

\* C4: in the ProductionController 0 <= reserved_requests_count <=
\* len(requests) in every reachable state
C4_ReservedWithinRequests ==
    kind = "production" => 0 <= reserved /\ reserved <= Len(requests)

\* C4 witness: one started task has not yet popped its request while a
\* second request is pending
C4_Witness ==
    kind = "production" /\ reserved = 1 /\ Len(requests) = 2

\* C5: in the ProductionController every request is popped by exactly one
\* start_process: no pop finds the list empty, no request is popped twice,
\* and when the run has come to rest, with no task held up by a product
\* missing from the input queue, every submitted request has been popped,
\* also when the control loop is woken before a started
\* start_process has removed its request
C5_ProductionPopsOnce ==
    kind = "production" =>
        /\ ~crashed
        /\ \A r \in 1..MaxReq : pops[r] <= 1
        /\ ((queue = <<>> /\ gwait = {}) => \A r \in 1..nreq : pops[r] = 1)

\* C5 witness: the control loop is woken while a started start_process has
\* not yet removed its request
C5_Witness ==
    kind = "production" /\ Fires("anyof") /\ reserved > 0 /\ nreq >= 2

\* C6: in the TransportController no start_process pops an empty request
\* list and no request is popped twice, with capacity >= 2 and also when
\* two tasks complete at the same instant
C6_TransportPopsOnce ==
    (kind = "transport" /\ capacity >= 2) =>
        /\ ~crashed
        /\ \A r \in 1..MaxReq : pops[r] <= 1

\* the router has been called
Called == kind = "router" /\ result # Idle

\* the router looks at the input queues: SimpleRouter, or CapabilityRouter
\* with a capability process
QueueChecked == router.router = "SimpleRouter" \/ router.ptype = "capability"

\* a production resource with an input queue for which len(items) +
\* pending_put >= capacity
HasFullInputQueue(i) ==
    /\ resources[i].prod
    /\ \E k \in 1..Len(resources[i].input_queues) :
          LET q == resources[i].input_queues[k]
          IN q.capacity # Unbounded
             /\ Len(q.items) + q.pending_put >= q.capacity

\* an input queue of capacity 2 that holds 2 items
HoldsTwoOfTwo(i) ==
    /\ resources[i].prod
    /\ resources[i].input_queues[1].capacity = 2
    /\ Len(resources[i].input_queues[1].items) = 2

\* C7: SimpleRouter and CapabilityRouter (capability process) never return
\* a production resource with a full input queue; when a candidate's input
\* queue of capacity 2 holds 2 items, the call returns None if it is the
\* only candidate and the alternate resource if there is one
C7_Backpressure ==
    (Called /\ QueueChecked) =>
        /\ result.status = "resource" => ~HasFullInputQueue(result.resource)
        /\ \A i \in 1..NumRes :
              (resources[i].offers /\ HoldsTwoOfTwo(i)) =>
                  LET others == {j \in 1..NumRes \ {i} :
                                    /\ resources[j].offers
                                    /\ ~HasFullInputQueue(j)}
                  IN IF others = {} THEN result = None
                     ELSE result.status = "resource"
                          /\ result.resource \in others

\* C7 witness: the first resource holds 2 of 2, the second has room, and the
\* router returned the second
C7_Witness ==
    /\ Called /\ QueueChecked
    /\ resources[1].offers /\ HoldsTwoOfTwo(1)
    /\ resources[2].offers /\ resources[2].prod /\ ~HasFullInputQueue(2)
    /\ result = Returns(2)

\* the resources that offer the process
Offering == {i \in 1..NumRes : resources[i].offers}

\* two resources offer the process and exactly one of them satisfies P: the
\* one that does not
TheOther(P(_)) ==
    {j \in Offering : /\ Cardinality(Offering) = 2
                      /\ ~P(j)
                      /\ \A i \in Offering \ {j} : P(i)}

Busy(i) == resources[i].busy

\* C8 (as stated): when two resources offer the process and one of them is
\* full (running occupations = capacity), SimpleRouter returns the other one
\* under every heuristic
C8_SkipsBusyResource ==
    (Called /\ router.router = "SimpleRouter") =>
        \A j \in TheOther(Busy) : result = Returns(j)

\* C8 (amended): when two resources offer the process and the input queue
\* of one of them is full (len(items) + pending_put >= capacity), the
\* router returns the other one under every heuristic
C8_SkipsFullInputQueue ==
    (Called /\ QueueChecked) =>
        \A j \in TheOther(HasFullInputQueue) : result = Returns(j)

\* C8 witness: the second resource's input queue is full by a reservation,
\* the first is a production resource with room, and the shortest_queue
\* heuristic returned the first
C8_Witness ==
    /\ Called /\ QueueChecked
    /\ router.heuristic = "shortest_queue"
    /\ resources[1].prod
    /\ resources[2].prod /\ resources[2].input_queues[1].pending_put = 1
    /\ 1 \in TheOther(HasFullInputQueue)
    /\ result = Returns(1)

\* the eligible resources of the call
eligible ==
    IF router.router = "SimpleRouter"
    THEN left_resources(get_resources_with_process(1))
    ELSE IF router.ptype = "transport" THEN get_resources_with_process(1)
    ELSE capable_resources(1)

\* C9: every router entry point returns None, without raising, when the
\* eligible set is empty: SimpleRouter, CapabilityRouter with a capability
\* process, and CapabilityRouter with a transport process that no resource
\* offers, under each heuristic
C9_NoneWhenNoEligible ==
    (/\ Called
     /\ router.router = "SimpleRouter"
          \/ router.ptype \in {"capability", "transport"}
     /\ eligible = <<>>) => result = None

\* Scenario A: capacity 1, FIFO, no setup, three requests submitted at
\* instant 0
ScenarioA ==
    /\ kind = "production" /\ capacity = 1 /\ policy = "FIFO"
    /\ setups = {}
    /\ nreq = 3 /\ \A r \in 1..3 : subTime[r] = 0

\* C10: in Scenario A the production State starts once for each request, at
\* 0 for r1, 5 for r2 and 10 for r3, never two at a time, and all three
\* have started when the run has come to rest
C10_ScenarioA ==
    ScenarioA =>
        /\ \A r \in 1..3 :
              startTime[r] \in {<<>>, <<(r - 1) * ProcessTime.production>>}
        /\ Cardinality(Occupations) <= 1
        /\ (queue = <<>> => \A r \in 1..3 : startTime[r] # <<>>)

\* C10 witness: the third request's State has started at 10
C10_Witness ==
    ScenarioA /\ startTime[3] = <<2 * ProcessTime.production>>

\* Scenario B: capacity 2, two requests, both submitted at instant 0
ScenarioB ==
    /\ kind = "production" /\ capacity = 2
    /\ nreq = 2 /\ subTime[1] = 0 /\ subTime[2] = 0

\* C11: in Scenario B a start_process task is started for both requests at
\* t = 0: once the clock has left instant 0, or the run has come to rest,
\* two tasks have been started and both requests have been popped, without
\* a further request and without a completion
C11_ScenarioB ==
    (ScenarioB /\ (now > 0 \/ queue = <<>>)) =>
        ntask >= 2 /\ pops[1] = 1 /\ pops[2] = 1

\* C11 witness: at instant 0 both tasks are alive and both requests popped
C11_Witness ==
    /\ ScenarioB /\ now = 0
    /\ life[1] = "alive" /\ life[2] = "alive"
    /\ pops[1] = 1 /\ pops[2] = 1

\* the process of request r, pending or popped
ProcOf(r) ==
    LET known == {x \in Range(requests) \cup Range(treq) : x.id = r}
    IN (CHOOSE x \in known : TRUE).proc

\* Scenario E: capacity 1, SPT, three requests with expected durations 5, 1
\* and 3, all pending at the first evaluation
ScenarioE ==
    /\ kind = "production" /\ capacity = 1 /\ policy = "SPT"
    /\ nreq = 3 /\ evals # <<>> /\ evals[1] = 3
    /\ ExpectedTime[ProcOf(1)] = 5
    /\ ExpectedTime[ProcOf(2)] = 1
    /\ ExpectedTime[ProcOf(3)] = 3

\* C12: under SPT the request a dispatch removes has minimal expected
\* duration among the requests that were pending at the dispatch's
\* evaluation; in Scenario E the tasks pop the requests in the order
\* duration 1, duration 3, duration 5
C12_ShortestFirst ==
    /\ (policy = "SPT" /\ Fires("sp_timeout") /\ requests # <<>>) =>
          \A i \in 1..evals[Len(evals)] :
              i <= Len(requests) =>
                  ExpectedTime[requests[1].proc]
                      <= ExpectedTime[requests[i].proc]
    /\ ScenarioE =>
          \A x \in 1..3 :
              treq[x] # NoRequest => treq[x].id = <<2, 3, 1>>[x]

\* C12 witness: in Scenario E the third task has popped the request of
\* duration 5
C12_Witness == ScenarioE /\ treq[3] # NoRequest /\ treq[3].id = 1

\* the last call on the queue under test was op
Called_(op) == kind = "queue" /\ lastCall.op = op

\* C14: a successful reserve() and its one unreseve() cancel out, whatever
\* other pairs, puts and gets come in between: a successful reserve(), a
\* matched unreseve(), a put and a get leave pending_put minus the number
\* of outstanding reservations unchanged
C14_ReservePairsCancel ==
    [][(/\ kind = "queue"
        /\ lastCall' # lastCall
        /\ ~lastCall'.raised
        /\ lastCall'.op = "unreseve" => lastCall'.matched)
       => tq'.pending_put - outstanding' = tq.pending_put - outstanding]_vars

\* C14 witness: two interleaved pairs are complete, a put came in between,
\* and pending_put is back at its first value
C14_Witness ==
    /\ Called_("unreseve") /\ lastCall.matched /\ lastCall.n = 5
    /\ outstanding = 0 /\ tq.pending_put = 0 /\ tq.items # <<>>

\* C15: pending_put is never negative: an unreseve() without a matching
\* reserve() fails instead of driving it below zero
C15_PendingNonNegative ==
    /\ tq.pending_put >= 0
    /\ (Called_("unreseve") /\ ~lastCall.matched) => lastCall.raised

\* C16: a reserve() that fails because the bounded queue is full leaves
\* pending_put as it was before the call
C16_FailedReserveKeepsCount ==
    (Called_("reserve") /\ lastCall.raised) =>
        tq.pending_put = lastCall.before.pending_put

\* C17: a put on a bounded queue with len(items) + pending_put >= capacity
\* fails with QueueFull: it does not append the item, does not suspend the
\* caller, and leaves pending_put unchanged
C17_PutOnFullFails ==
    (/\ Called_("put")
     /\ tq.capacity # Unbounded
     /\ Len(lastCall.before.items) + lastCall.before.pending_put
            >= tq.capacity)
    => /\ lastCall.raised
       /\ tq.items = lastCall.before.items
       /\ tq.putters = lastCall.before.putters
       /\ tq.pending_put = lastCall.before.pending_put

\* C18: the steps of a production start_process come in the order setup,
\* acquire the slot, remove the product from the input queue, run the
\* State, release the slot, place the product on the output queue: a task
\* holds the slot only after its setup, its State runs only with the slot
\* held and the product removed, and its product is on the output queue
\* only after the State has ended and the slot has been released
C18_StepOrder ==
    kind = "production" =>
        \A x \in Tids :
            treq[x] # NoRequest =>
                /\ x \in users => x \notin setupRun
                /\ psLife[x] = "running" =>
                      x \in users /\ treq[x].id \notin inq
                /\ treq[x].id \in Range(outq) =>
                      psLife[x] = "processed" /\ x \notin users

\* C19: a production start_process whose product is in no input queue
\* fails with NoMatchingItem: no task stays suspended on the get while it
\* holds the capacity slot
C19_NoMatchingItemIsFatal ==
    kind = "production" =>
        \A x \in gwait : x \in users => crashed

\* C20: the product is picked up after an empty leg, and the loaded leg is
\* started, only while the transport resource's current location is the
\* request's origin
C20_LoadedLegStartsAtOrigin ==
    (/\ kind = "transport" /\ ~crashed /\ queue # <<>>
     /\ \/ Head(queue).k = "w_proc" /\ tleg[Head(queue).id] = "loaded"
        \/ Head(queue).k = "rt_proc" /\ tleg[Head(queue).id] = "empty")
    => loc = treq[Head(queue).id].origin

\* the task x signals its product's completion in this step
Completes(x) == life[x] # "triggered" /\ life'[x] = "triggered"

\* C21: a transport to a production resource releases the reservation on
\* the target's input queue exactly once, in the step that follows the
\* completed drop-off put and signals the product's completion; a transport
\* to a sink releases nothing; and no other step lowers pending_put
C21_UnreserveOnceAfterPut ==
    [][kind = "transport" =>
         /\ \A x \in Tids :
              Completes(x) =>
                  /\ Fires("allof_put") /\ Head(queue).id = x
                  /\ tq'.pending_put = tq.pending_put
                        - (IF treq[x].target = "R" THEN 1 ELSE 0)
         /\ tq'.pending_put < tq.pending_put => \E x \in Tids : Completes(x)
      ]_vars

\* C21 witness: one transport to the production resource and one to the
\* sink have completed
C21_Witness ==
    /\ kind = "transport" /\ ~crashed
    /\ \E x, y \in Tids :
         /\ life[x] = "triggered" /\ treq[x].target = "R"
         /\ life[y] = "triggered" /\ treq[y].target = "K"

\* C22: Environment.run(time_range) returns, with the clock at time_range
\* and no event processed that was scheduled for a later time
C22_RunReturnsAtTimeRange ==
    (kind = "env" /\ envRun # NoRun) =>
        /\ envRun.outcome = "returned"
        /\ now = envRun.time_range
        /\ \A i \in 1..Len(fired) : fired[i].t <= envRun.time_range

\* C23 as stated: the events are processed in nondecreasing order of
\* (time, insertion sequence)
C23_TimeThenInsertionOrder ==
    kind = "env" =>
        \A i, j \in 1..Len(fired) :
            i < j =>
                \/ fired[i].t < fired[j].t
                \/ fired[i].t = fired[j].t /\ fired[i].id < fired[j].id

\* C23: virtual time never decreases, and two events of the same priority
\* scheduled for the same instant are processed in the order in which they
\* were scheduled (the Initialize event of a new process is urgent and
\* overtakes the normal events of its instant)
C23_TimePriorityThenInsertionOrder ==
    kind = "env" =>
        /\ \A i \in 1..Len(fired) : fired[i].t <= now
        /\ \A i, j \in 1..Len(fired) :
              i < j =>
                  /\ fired[i].t <= fired[j].t
                  /\ (/\ fired[i].t = fired[j].t
                      /\ Priority(fired[i]) = Priority(fired[j]))
                     => fired[i].id < fired[j].id

\* C23 witness: three events of one instant were processed, the urgent one
\* first although it was scheduled last, the two normal ones in their order
C23_Witness ==
    /\ kind = "env" /\ Len(fired) = 3
    /\ fired[1].t = fired[3].t
    /\ fired[1].k = "initialize" /\ fired[1].id = 3
    /\ fired[2].id = 1 /\ fired[3].id = 2

\* C24: a Queue configured with capacity 0 is unbounded: full() is false
\* and reserve() succeeds, whatever the number of items and of outstanding
\* reservations
C24_CapacityZeroIsUnbounded ==
    (kind = "queue" /\ tq.capacity = Unbounded) =>
        /\ ~queue_full(tq)
        /\ Called_("reserve") => ~lastCall.raised

\* C24 witness: a reserve() on the capacity-0 queue that already holds two
\* items and one reservation
C24_Witness ==
    /\ Called_("reserve") /\ tq.capacity = Unbounded
    /\ Len(lastCall.before.items) = 2 /\ lastCall.before.pending_put = 1
    /\ tq.pending_put = 2

\* C25: after the cleanup of a control-loop wake, running_processes holds
\* no task that has already completed
C25_CleanupRemovesAllCompleted ==
    [][control_loop =>
         \A i \in 1..Len(running') : life'[running'[i]] = "alive"]_vars

\* C26: under LIFO_control_policy the request a dispatch removes is the
\* most recently submitted of those pending at its evaluation: when a task
\* is about to pop, every pending request newer than the head of the list
\* was submitted at this instant, after the evaluation
C26_LIFORemovesNewest ==
    (/\ kind \in {"production", "transport"} /\ policy = "LIFO"
     /\ Fires("sp_timeout") /\ requests # <<>>)
    => \A i \in 1..Len(requests) :
           requests[i].id > Head(requests).id =>
               subTime[requests[i].id] = Head(queue).t

C28_RequestedFiredOnce ==
    kind \in {"production", "transport"} => ~doubleFire

\* C28 witness: the control loop, woken after a completion with requests
\* coming in, has dispatched a task and fired `requested` itself
C28_Witness ==
    /\ kind \in {"production", "transport"} /\ ~crashed
    /\ now > 0 /\ nreq >= 2 /\ requested = "triggered"
    /\ \E i, j \in 1..Len(queue) :
         /\ i < j
         /\ queue[i].k = "requested"
         /\ queue[j].k = "sp_timeout" /\ queue[j].id = ntask

\* C29: on a production resource with two or more input queues a task that
\* holds the slot takes the product from the input queue that holds it and
\* goes on to the production run
C29_TwoInputQueuesReachRun ==
    \A x \in Tids :
        (ninq >= 2 /\ x \in users /\ treq[x].id \in inq)
            ~> (psLife[x] # "none")

\* the number of times the queue s holds the product id
Count(s, id) == Cardinality({i \in 1..Len(s) : s[i] = id})

\* C30: a product is held by at most one queue, and at most once by it
C30_ProductInOneQueue ==
    kind \in {"production", "transport"} =>
        \A id \in 1..nreq :
            (IF id \in inq THEN 1 ELSE 0) + Count(outq, id)
              + Count(outq2, id) + (IF id \in srcq THEN 1 ELSE 0)
              + Count(tq.items, id) <= 1

\* C31: while a production State for a process that has a setup state is
\* running, the resource's active configuration is the one of that process
C31_SetupKeptDuringRun ==
    kind = "production" =>
        \A x \in Tids :
            (psLife[x] = "running" /\ treq[x].proc \in setups)
                => current_setup = treq[x].proc

\* C32: a transport toward a production resource that reserved its slot
\* before it started finds room at the drop-off: no put waits in the target's
\* input queue, and the put that is about to run sees len(items) < capacity
C32_DropOffFindsRoom ==
    kind = "transport" =>
        /\ tq.putters = <<>>
        /\ (/\ Fires("rt_proc")
            /\ tleg[Head(queue).id] # "empty"
            /\ treq[Head(queue).id].target = "R") => has_room(tq)

\* two transports hold a reservation of a bounded queue that is filled up
\* by their drop-offs
C32_Witness ==
    /\ kind = "transport" /\ ~crashed
    /\ tq.capacity = 2 /\ Len(tq.items) = 2 /\ tq.pending_put >= 1
    /\ \E x \in Tids : life[x] = "triggered" /\ treq[x].target = "R"

\* the slots of an input queue that nobody holds
free_slots(q) == q.capacity - q.pending_put - Len(q.items)

\* C33: two routing decisions one after the other are never both granted
\* the last free slot of the same input queue
C33_LastSlotGrantedOnce ==
    kind = "router" =>
        \A i \in 1..Len(resources) :
            (/\ Len(decisions) >= 2
             /\ decisions[1] = Returns(i) /\ decisions[2] = Returns(i)
             /\ resources[i].prod
             /\ resources[i].input_queues[1].capacity # Unbounded)
                => free_slots(resources[i].input_queues[1]) # 1

\* the candidate production resources of the call, and those of them whose
\* input queue holds the fewest items
ProductionCandidates == {i \in Range(routed_list) : resources[i].prod}
Shortest ==
    {i \in ProductionCandidates :
        \A j \in ProductionCandidates :
            Len(resources[i].input_queues[1].items)
                <= Len(resources[j].input_queues[1].items)}

\* C34: with a production resource among the candidates, the resources the
\* shortest_queue heuristic can return are exactly the production
\* candidates whose input queue holds the fewest items, and a call returns
\* one of them
C34_ShortestQueueChosen ==
    (/\ kind = "router" /\ router.heuristic = "shortest_queue"
     /\ heuristic_called /\ ProductionCandidates # {}) =>
        /\ shortest_queue_routing_heuristic(routed_list)
               = {Returns(i) : i \in Shortest}
        /\ \A n \in 1..Len(decisions) :
               decisions[n].status = "resource"
               /\ decisions[n].resource \in Shortest

\* a tie between two production candidates, one with a reserved slot, and
\* two calls that returned the one and the other
C34_Witness ==
    /\ kind = "router" /\ router.heuristic = "shortest_queue"
    /\ heuristic_called /\ Shortest = {1, 2}
    /\ resources[1].input_queues[1].pending_put
           # resources[2].input_queues[1].pending_put
    /\ decisions = <<Returns(1), Returns(2)>>

\* C35: a call of get_next_resource leaves the resource factory's list, with
\* the items and pending_put of every input queue in it, and every other
\* queue as they were
C35_RoutingIsPureQuery ==
    [][get_next_resource =>
           /\ resources' = resources
           /\ tq' = tq /\ inq' = inq /\ outq' = outq /\ outq2' = outq2]_vars

\* the FIFO heuristic popped the head of a list of two candidates twice, and
\* the same first resource of the factory's list was returned both times
C35_Witness ==
    /\ kind = "router" /\ router.heuristic = "FIFO"
    /\ Len(routed_list) = 2
    /\ decisions = <<Returns(1), Returns(1)>>

C37_PathFailureStaysLocal ==
    kind = "transport" =>
        \A x \in Tids : life[x] = "failed" => (x \notin users /\ ~crashed)

\* C38: the legacy control loop never fires `requested` itself, and it
\* starts a request only on a wake that found `requested` fired by a
\* request() call or a completed task among the running processes
C38_LegacyServesOnePerTrigger ==
    [][control_loop_legacy =>
           /\ requested' = "pending"
           /\ ntask' # ntask =>
                  \/ requested # "pending"
                  \/ \E x \in Range(running) : life[x] # "alive"]_vars

\* capacity 2, two requests at time 0 of which one is running and the other
\* is still waiting, with a free slot and nothing left to wake the loop
C38_Witness ==
    /\ kind = "legacy" /\ capacity = 2
    /\ nreq = 2 /\ subTime[1] = 0 /\ subTime[2] = 0
    /\ ntask = 1 /\ psLife[1] = "running" /\ Len(requests) = 1
    /\ requested = "pending" /\ cwait.st = "pending"
====
